---- MODULE Spec2Model ----
(***************************************************************************)
(* Flowlytix subscription server: the lifespan manager (startup/shutdown   *)
(* around the serving window) and the paginated subscriptions endpoint of  *)
(* subscription-server/main_fixed.py (main.py holds the same lifespan).    *)
(*                                                                         *)
(* Python strings that the code formats, lower-cases or searches are       *)
(* sequences of ASCII character codes; the status values, which the code   *)
(* only compares and tests for emptiness, are atomic strings.  An Optional *)
(* query parameter is <<>> when absent (None) and <<v>> when present.      *)
(***************************************************************************)
EXTENDS Integers, Sequences, FiniteSets

VARIABLES
    pc,         \* position of lifespan: "start", "serving" (at the yield), "stopped", "failed"
    calls,      \* the database functions awaited so far, in order: <<name, outcome>>
    log,        \* the logger's records so far, in order: <<level, message>>
    raised,     \* TRUE when an exception has propagated out of lifespan
    request,    \* per client: the query parameters it sends, or NoRequest
    response    \* per client: what the endpoint returned to it, or NoResponse

vars == <<pc, calls, log, raised, request, response>>

----------------------------------------------------------------------------
(* Bounds of the model *)

MaxPage == 4        \* requests carry page in 0..MaxPage
NumClients == 3     \* clients that may send one request each

(* Program constants *)

NumSubscriptions == 200     \* range(1, 201)
MinPage == 1                \* Query(1, ge=1)
MinPageSize == 1            \* Query(10, ge=1, le=100)
MaxPageSize == 100          \* Query(10, ge=1, le=100)

NoRequest == [absent |-> TRUE]       \* the client sends nothing
NoResponse == [pending |-> TRUE]     \* the client has no answer yet

Clients == 1..NumClients

Min(a, b) == IF a <= b THEN a ELSE b

----------------------------------------------------------------------------
(* Strings *)

\* str.lower() of one character: the ASCII capitals map to their small letters
LowerChar(c) == IF c >= 65 /\ c <= 90 THEN c + 32 ELSE c

\* str.lower()
Lower(s) == [k \in 1..Len(s) |-> LowerChar(s[k])]

\* str(n) and f"{n}" for n >= 0; the digit d is the character 48 + d
RECURSIVE Decimal(_)
Decimal(n) ==
    IF n < 10 THEN <<48 + n>>
    ELSE Decimal(n \div 10) \o <<48 + (n % 10)>>

\* f"{n:0wd}": zero-padded on the left to at least w characters
RECURSIVE ZeroPad(_, _)
ZeroPad(s, w) == IF Len(s) >= w THEN s ELSE ZeroPad(<<48>> \o s, w)

Pad4(n) == ZeroPad(Decimal(n), 4)

\* t in s
Contains(s, t) ==
    \E k \in 0..(Len(s) - Len(t)) : SubSeq(s, k + 1, k + Len(t)) = t

\* lst[start:end] for 0 <= start <= end
PySlice(lst, start, end) ==
    LET lo == Min(start, Len(lst))
        hi == Min(end, Len(lst))
    IN  IF lo >= hi THEN <<>> ELSE SubSeq(lst, lo + 1, hi)

----------------------------------------------------------------------------
(* Optional query parameters *)

None == <<>>
Some(v) == <<v>>

\* Python truthiness of an Optional[str]: None and the empty string are falsy
TruthyStatus(status) == status # None /\ status[1] # ""
TruthySearch(search) == search # None /\ search[1] # <<>>

----------------------------------------------------------------------------
(* The mock subscriptions *)

Tier(i) == IF i % 3 = 0 THEN "premium" ELSE IF i % 2 = 0 THEN "basic" ELSE "pro"

Status(i) == IF i % 4 # 0 THEN "active" ELSE IF i % 6 = 0 THEN "expired" ELSE "suspended"

\* f"Customer {i}"
CustomerName(i) == <<67,117,115,116,111,109,101,114,32>> \o Decimal(i)

\* f"FL-{i:04d}-{i*2:04d}-{i*3:04d}"
LicenseKey(i) ==
    <<70,76,45>> \o Pad4(i) \o <<45>> \o Pad4(i * 2) \o <<45>> \o Pad4(i * 3)

Subscription(i) ==
    [ id           |-> Decimal(i),
      customerName |-> CustomerName(i),
      licenseKey   |-> LicenseKey(i),
      tier         |-> Tier(i),
      status       |-> Status(i) ]

\* variant: one list shared by all requests, left as the last request filtered and cut it
SharedSubscriptions ==
    IF \E c \in Clients : response[c] # NoResponse /\ response[c].success
    THEN response[CHOOSE c \in Clients :
                    response[c] # NoResponse /\ response[c].success].data
    ELSE [i \in 1..NumSubscriptions |-> Subscription(i)]

mock_subscriptions == [i \in 1..NumSubscriptions |-> Subscription(i)]

----------------------------------------------------------------------------
(* GET /api/v1/subscriptions *)

\* variant: the status asked for is compared with the tier
StatusMatchesTier(s, status) == s.tier = status[1]

StatusMatches(s, status) == s.status = status[1]

\* variant: the term is not lower-cased
SearchMatchesCaseSensitive(s, search) ==
    \/ Contains(Lower(s.customerName), search[1])
    \/ Contains(Lower(s.licenseKey), search[1])

SearchMatches(s, search) ==
    \/ Contains(Lower(s.customerName), Lower(search[1]))
    \/ Contains(Lower(s.licenseKey), Lower(search[1]))

\* variant: a status outside the three known ones is ignored
StatusFilterLenient(subs, status) ==
    IF TruthyStatus(status) /\ status[1] \in {"active", "expired", "suspended"}
    THEN SelectSeq(subs, LAMBDA s : s.status = status[1])
    ELSE subs

StatusFilter(subs, status) ==
    IF TruthyStatus(status)
    THEN SelectSeq(subs, LAMBDA s : StatusMatches(s, status))
    ELSE subs

SearchFilter(subs, search) ==
    IF TruthySearch(search)
    THEN SelectSeq(subs, LAMBDA s : SearchMatches(s, search))
    ELSE subs

filtered_subscriptions(status, search) ==
    SearchFilter(StatusFilter(mock_subscriptions, status), search)

\* variant: the division rounds down
TotalPagesFloor(total_items, page_size) == total_items \div page_size

total_pages(total_items, page_size) == (total_items + page_size - 1) \div page_size

\* variant: pages counted from zero
StartIndexOneBased(page, page_size) == page * page_size

start_index(page, page_size) == (page - 1) * page_size

\* variant: the slice takes one record more
EndIndexPastPage(page, page_size) == (page - 1) * page_size + page_size + 1

end_index(page, page_size) == start_index(page, page_size) + page_size

\* the Query(...) constraints, enforced before the handler body runs
ValidQuery(q) ==
    /\ q.page >= MinPage
    /\ q.page_size >= MinPageSize
    /\ q.page_size <= MaxPageSize

ValidationError == [success |-> FALSE, code |-> 422]

\* variant: the totals are taken from the page instead of the filtered list
PaginatedCountsPage(q) ==
    LET filtered == filtered_subscriptions(q.status, q.search)
        paginated == PySlice(filtered, (q.page - 1) * q.page_size, q.page * q.page_size)
    IN  [ success    |-> TRUE,
          data       |-> paginated,
          totalCount |-> Len(paginated),
          page       |-> q.page,
          pageSize   |-> q.page_size,
          totalPages |-> (Len(paginated) + q.page_size - 1) \div q.page_size ]

get_subscriptions_paginated(q) ==
    LET filtered == filtered_subscriptions(q.status, q.search)
        total_items == Len(filtered)
    IN  [ success    |-> TRUE,
          data       |-> PySlice(filtered, start_index(q.page, q.page_size),
                                           end_index(q.page, q.page_size)),
          totalCount |-> total_items,
          page       |-> q.page,
          pageSize   |-> q.page_size,
          totalPages |-> total_pages(total_items, q.page_size) ]

Endpoint(q) == IF ValidQuery(q) THEN get_subscriptions_paginated(q) ELSE ValidationError

----------------------------------------------------------------------------
(* Inputs *)

StatusValues == { None, Some(""), Some("active"), Some("expired"), Some("suspended"),
                  Some("Active") }

SearchValues == { None, Some(<<>>),
                  Some(<<67,117,115,116,111,109,101,114,32,53>>),     \* "Customer 5"
                  Some(<<99,85,83,84,79,77,69,82,32,53>>),      \* "cUSTOMER 5"
                  Some(<<102,108,45,48,48,49>>),               \* "fl-001"
                  Some(<<122,122>>) }                         \* "zz"

Queries ==
    [ page : 0..MaxPage, page_size : 0..(MaxPageSize + 1),
      status : StatusValues, search : SearchValues ]

\* the queries of clients that are served side by side
ConcQueries ==
    { [ page |-> p, page_size |-> 10, status |-> f[1], search |-> f[2] ] :
        p \in {1, 3},
        f \in { <<None, None>>, <<Some("expired"), None>>,
                <<None, Some(<<99,85,83,84,79,77,69,82,32,53>>)>> } }

\* the filters of two clients that ask for pages of the same result
PairStatusValues == { None, Some("expired"), Some("Active") }
PairSearchValues == { None, Some(<<99,85,83,84,79,77,69,82,32,53>>) }

----------------------------------------------------------------------------
(* lifespan: main_fixed.py and main.py hold the same generator, with the     *)
(* same awaits, handlers and order of log records.  The framework resumes it *)
(* after the yield when the service stops.                                   *)

Info(m) == <<"info", m>>
Error(m) == <<"error", m>>

Outcomes == {"ok", "raise"}     \* an awaited collaborator returns, or raises an Exception

\* variant: the startup failure is logged and not raised again
StartupSwallows(outcome) ==
    /\ pc = "start"
    /\ calls' = Append(calls, <<"init_database", outcome>>)
    /\ IF outcome = "ok"
       THEN log' = log \o << Info("Starting Flowlytix Subscription Server"),
                             Info("Database initialized successfully"),
                             Info("Application startup completed") >>
       ELSE log' = log \o << Info("Starting Flowlytix Subscription Server"),
                             Error("Application startup failed") >>
    /\ pc' = "serving"
    /\ UNCHANGED <<raised, request, response>>

\* lifespan up to the yield
Startup(outcome) ==
    /\ pc = "start"
    /\ calls' = Append(calls, <<"init_database", outcome>>)
    /\ IF outcome = "ok"
       THEN /\ log' = log \o << Info("Starting Flowlytix Subscription Server"),
                                Info("Database initialized successfully"),
                                Info("Application startup completed") >>
            /\ pc' = "serving"
            /\ raised' = raised
       ELSE /\ log' = log \o << Info("Starting Flowlytix Subscription Server"),
                                Error("Application startup failed") >>
            /\ pc' = "failed"
            /\ raised' = TRUE
    /\ UNCHANGED <<request, response>>

\* variant: the shutdown failure is logged and raised again
ShutdownReraises(outcome) ==
    /\ pc = "serving"
    /\ calls' = Append(calls, <<"close_database", outcome>>)
    /\ IF outcome = "ok"
       THEN /\ log' = log \o << Info("Shutting down application"),
                                Info("Database connections closed"),
                                Info("Application shutdown completed") >>
            /\ raised' = raised
       ELSE /\ log' = log \o << Info("Shutting down application"),
                                Error("Error during shutdown") >>
            /\ raised' = TRUE
    /\ pc' = "stopped"
    /\ UNCHANGED <<request, response>>

\* lifespan after the yield
Shutdown(outcome) ==
    /\ pc = "serving"
    /\ calls' = Append(calls, <<"close_database", outcome>>)
    /\ IF outcome = "ok"
       THEN log' = log \o << Info("Shutting down application"),
                             Info("Database connections closed"),
                             Info("Application shutdown completed") >>
       ELSE log' = log \o << Info("Shutting down application"),
                             Error("Error during shutdown") >>
    /\ pc' = "stopped"
    /\ UNCHANGED <<raised, request, response>>

\* one request served inside the serving window
Serve(c) ==
    /\ pc = "serving"
    /\ request[c] # NoRequest
    /\ response[c] = NoResponse
    /\ response' = [response EXCEPT ![c] = Endpoint(request[c])]
    /\ UNCHANGED <<pc, calls, log, raised, request>>

InitLifespan ==
    /\ pc = "start"
    /\ calls = <<>>
    /\ log = <<>>
    /\ raised = FALSE
    /\ response = [c \in Clients |-> NoResponse]

\* one client, any query
Init ==
    /\ InitLifespan
    /\ \E q \in Queries : request = [c \in Clients |-> IF c = 1 THEN q ELSE NoRequest]

Next ==
    \/ \E o \in Outcomes : Startup(o)
    \/ \E o \in Outcomes : Shutdown(o)
    \/ \E c \in Clients : Serve(c)

Spec == Init /\ [][Next]_vars

\* every client sends a query; they are served in any order
InitConc ==
    /\ InitLifespan
    /\ request \in [Clients -> ConcQueries]

SpecConc == InitConc /\ [][Next]_vars

\* two clients send the same page_size, status and search, each with a page of its own
InitPair ==
    /\ InitLifespan
    /\ \E size \in MinPageSize..MaxPageSize, st \in PairStatusValues,
          se \in PairSearchValues, p1 \in MinPage..MaxPage, p2 \in MinPage..MaxPage :
            request = [ c \in Clients |->
                          IF c = 1
                          THEN [page |-> p1, page_size |-> size, status |-> st, search |-> se]
                          ELSE IF c = 2
                          THEN [page |-> p2, page_size |-> size, status |-> st, search |-> se]
                          ELSE NoRequest ]

SpecPair == InitPair /\ [][Next]_vars

----------------------------------------------------------------------------
(* What the properties below are stated with *)

Range(f) == { f[k] : k \in DOMAIN f }

Served(c) == response[c] # NoResponse

\* the request of c passed validation and the handler body answered it
Accepted(c) == Served(c) /\ response[c].success

StatusNames == {"active", "expired", "suspended"}

\* t occurs in s at some position, character by character
IsInfix(t, s) ==
    \E k \in 1..(Len(s) + 1) :
        \A j \in 1..Len(t) : k + j - 1 <= Len(s) /\ s[k + j - 1] = t[j]

\* candidate i has the status asked for; no status, or an empty one, asks for none
KeptByStatus(i, status) ==
    status = None \/ status = Some("") \/ Status(i) = status[1]

\* candidate i carries the lower-cased term in its lower-cased name or licence key
KeptBySearch(i, search) ==
    \/ search = None
    \/ IsInfix(Lower(search[1]), Lower(CustomerName(i)))
    \/ IsInfix(Lower(search[1]), Lower(LicenseKey(i)))

\* the numbers of the candidates a filter keeps, for every filter a query can carry
KeptIds ==
    [ status \in StatusValues, search \in SearchValues |->
        { i \in 1..NumSubscriptions : KeptByStatus(i, status) /\ KeptBySearch(i, search) } ]

\* the members of ids between lo and hi, in ascending order
RECURSIVE Ascending(_, _, _)
Ascending(ids, lo, hi) ==
    IF lo > hi THEN <<>>
    ELSE IF lo = hi THEN (IF lo \in ids THEN <<lo>> ELSE <<>>)
    ELSE LET mid == (lo + hi) \div 2
         IN  Ascending(ids, lo, mid) \o Ascending(ids, mid + 1, hi)

KeptList ==
    [ status \in StatusValues, search \in SearchValues |->
        Ascending(KeptIds[status, search], 1, NumSubscriptions) ]

Kept(q) == KeptIds[q.status, q.search]
KeptSeq(q) == KeptList[q.status, q.search]

\* the position of candidate i in the filtered sequence of q (i is kept by q)
PositionOf(i, q) == CHOOSE p \in 1..Len(KeptSeq(q)) : KeptSeq(q)[p] = i

----------------------------------------------------------------------------
(* C1: an accepted request returns at most page_size records, and exactly     *)
(* page_size unless the requested page is the last page (page = totalPages).  *)
(* This is the claim as stated; a page beyond the last one refutes it.        *)
PageLengthAsClaimed ==
    \A c \in Clients : Accepted(c) =>
        LET q == request[c]
            r == response[c]
        IN  /\ Len(r.data) <= q.page_size
            /\ (q.page # r.totalPages => Len(r.data) = q.page_size)

(* C1, amended: an accepted request returns at most page_size records; it     *)
(* returns exactly page_size on every page before the last (page <            *)
(* totalPages), between 1 and page_size on the last page (page = totalPages)  *)
(* and none on a page beyond it (page > totalPages).                          *)
PageLength ==
    \A c \in Clients : Accepted(c) =>
        LET q == request[c]
            r == response[c]
        IN  /\ Len(r.data) <= q.page_size
            /\ (q.page < r.totalPages => Len(r.data) = q.page_size)
            /\ (q.page = r.totalPages => Len(r.data) >= 1)
            /\ (q.page > r.totalPages => Len(r.data) = 0)

\* a last page that is not full has been returned
PageLengthWitness ==
    \E c \in Clients :
        /\ Accepted(c)
        /\ request[c].page = response[c].totalPages
        /\ Len(response[c].data) >= 1
        /\ Len(response[c].data) < request[c].page_size

(* C2: for an accepted request totalCount is the size of the filtered set and *)
(* totalPages is ceil(totalCount / page_size): the least number of pages of   *)
(* page_size records that hold totalCount records; totalPages = 0 exactly     *)
(* when totalCount = 0.                                                       *)
TotalsAreCeiling ==
    \A c \in Clients : Accepted(c) =>
        LET q == request[c]
            r == response[c]
        IN  /\ r.totalCount = Cardinality(Kept(q))
            /\ r.totalPages * q.page_size >= r.totalCount
            /\ (r.totalPages - 1) * q.page_size < r.totalCount
            /\ (r.totalPages = 0 <=> r.totalCount = 0)

\* a count that page_size does not divide has been paged
TotalsAreCeilingWitness ==
    \E c \in Clients :
        /\ Accepted(c)
        /\ response[c].totalCount > 0
        /\ response[c].totalCount % request[c].page_size # 0

(* C3: the data of an accepted request is the segment of the filtered         *)
(* sequence (the kept candidates in ascending id) that starts at offset       *)
(* (page-1)*page_size and has at most page_size records: the p-th kept        *)
(* candidate is in data exactly when it lies on the requested page, where it  *)
(* stands at its place, and nothing else is in data.  So each kept candidate  *)
(* is on exactly one of the pages 1..totalPages.  page=1, page_size=10 with   *)
(* no status and no search returns ids "1".."10", totalCount=200 and          *)
(* totalPages=20.                                                             *)
DataIsSegment ==
    \A c \in Clients : Accepted(c) =>
        LET q == request[c]
            r == response[c]
            offset == (q.page - 1) * q.page_size
            kept == KeptSeq(q)
        IN  /\ \A p \in 1..Len(kept) :
                  IF offset < p /\ p <= offset + q.page_size
                  THEN /\ p - offset <= Len(r.data)
                       /\ r.data[p - offset] = Subscription(kept[p])
                       /\ r.data[p - offset].id = Decimal(kept[p])
                       /\ (p - 1) \div q.page_size + 1 = q.page
                       /\ q.page <= r.totalPages
                  ELSE \A k \in 1..Len(r.data) : r.data[k].id # Decimal(kept[p])
            /\ \A k \in 1..Len(r.data) :
                  /\ offset + k <= Len(kept)
                  /\ r.data[k] = Subscription(kept[offset + k])
            /\ ( q = [page |-> 1, page_size |-> 10, status |-> None, search |-> None]
                 => /\ [k \in 1..Len(r.data) |-> r.data[k].id]
                        = << <<49>>, <<50>>, <<51>>, <<52>>, <<53>>, <<54>>, <<55>>,
                             <<56>>, <<57>>, <<49, 48>> >>
                    /\ r.totalCount = 200
                    /\ r.totalPages = 20 )

\* a second page of a filtered sequence has been returned
DataIsSegmentWitness ==
    \E c \in Clients :
        /\ Accepted(c)
        /\ request[c].page = 2
        /\ request[c].status = Some("active")
        /\ Len(response[c].data) = request[c].page_size

(* C4: when a status is present and is not exactly "active", "expired" or     *)
(* "suspended" (a differently-cased value and the empty string included),     *)
(* the result has zero matches: totalCount = 0, totalPages = 0, data empty.   *)
(* This is the claim as stated; the empty status refutes it.                  *)
UnknownStatusAsClaimed ==
    \A c \in Clients : Accepted(c) =>
        LET q == request[c]
            r == response[c]
        IN  (q.status # None /\ q.status[1] \notin StatusNames)
            => (r.totalCount = 0 /\ r.totalPages = 0 /\ r.data = <<>>)

(* C4, amended: when a status is present, is not empty and is not exactly     *)
(* "active", "expired" or "suspended" (a differently-cased value included),   *)
(* the result has zero matches: totalCount = 0, totalPages = 0, data empty;   *)
(* an empty status filters nothing: totalCount is what the same request       *)
(* without a status has.                                                      *)
UnknownStatus ==
    \A c \in Clients : Accepted(c) =>
        LET q == request[c]
            r == response[c]
        IN  /\ (q.status # None /\ q.status[1] # "" /\ q.status[1] \notin StatusNames)
               => (r.totalCount = 0 /\ r.totalPages = 0 /\ r.data = <<>>)
            /\ q.status = Some("")
               => r.totalCount = Cardinality(KeptIds[None, q.search])

\* a differently-cased status has been answered, with no search narrowing the result
UnknownStatusWitness ==
    \E c \in Clients :
        /\ Accepted(c)
        /\ request[c].status = Some("Active")
        /\ request[c].search = None
        /\ response[c].data = <<>>

(* C5: when status is "active", "expired" or "suspended", every returned      *)
(* record has exactly that status, and totalCount is the number of the 200    *)
(* candidates with that status.  This is the claim as stated; a request that  *)
(* also carries a search refutes it.                                          *)
StatusExactAsClaimed ==
    \A c \in Clients : Accepted(c) =>
        LET q == request[c]
            r == response[c]
        IN  (q.status # None /\ q.status[1] \in StatusNames)
            => /\ \A k \in 1..Len(r.data) : r.data[k].status = q.status[1]
               /\ r.totalCount
                    = Cardinality({ i \in 1..NumSubscriptions : Status(i) = q.status[1] })

(* C5, amended: when status is "active", "expired" or "suspended", every      *)
(* returned record has exactly that status, and totalCount is the number of   *)
(* the 200 candidates with that status that the search, if one is given,      *)
(* keeps: all candidates with that status when there is no search.            *)
StatusExact ==
    \A c \in Clients : Accepted(c) =>
        LET q == request[c]
            r == response[c]
        IN  (q.status # None /\ q.status[1] \in StatusNames)
            => /\ \A k \in 1..Len(r.data) : r.data[k].status = q.status[1]
               /\ r.totalCount
                    = Cardinality({ i \in KeptIds[None, q.search] : Status(i) = q.status[1] })
               /\ q.search = None
                  => r.totalCount
                       = Cardinality({ i \in 1..NumSubscriptions : Status(i) = q.status[1] })

\* the sixteen expired candidates have been counted and some of them returned
StatusExactWitness ==
    \E c \in Clients :
        /\ Accepted(c)
        /\ request[c].status = Some("expired")
        /\ request[c].search = None
        /\ response[c].totalCount = 16
        /\ response[c].data # <<>>

(* C6: when a search is given, a candidate that passes the status filter is   *)
(* kept exactly when the lower-cased term occurs in its lower-cased           *)
(* customerName or in its lower-cased licenseKey: every returned record       *)
(* carries the term and has the status asked for, and totalCount is the       *)
(* number of candidates that pass both; terms that differ only in case give   *)
(* the same count.                                                            *)
SearchExact ==
    \A c \in Clients : Accepted(c) =>
        LET q == request[c]
            r == response[c]
        IN  q.search # None
            => /\ \A k \in 1..Len(r.data) :
                    /\ \/ IsInfix(Lower(q.search[1]), Lower(r.data[k].customerName))
                       \/ IsInfix(Lower(q.search[1]), Lower(r.data[k].licenseKey))
                    /\ (q.status = None \/ q.status = Some("")
                          \/ r.data[k].status = q.status[1])
               /\ r.totalCount = Cardinality(Kept(q))
               /\ \A other \in SearchValues :
                    (other # None /\ Lower(other[1]) = Lower(q.search[1]))
                    => r.totalCount = Cardinality(KeptIds[q.status, other])

\* a term in capitals has found active candidates
SearchExactWitness ==
    \E c \in Clients :
        /\ Accepted(c)
        /\ request[c].search = Some(<<99,85,83,84,79,77,69,82,32,53>>)
        /\ request[c].status = Some("active")
        /\ response[c].data # <<>>

(* C7: a request for a page greater than totalPages is answered with success  *)
(* and an empty data array, and its totalCount and totalPages are those       *)
(* returned for an in-range page with the same page_size, status and search.  *)
BeyondLastPage ==
    \A c \in Clients : (Served(c) /\ ValidQuery(request[c])) =>
        LET q == request[c]
            r == response[c]
        IN  /\ r.success
            /\ q.page > r.totalPages
               => /\ r.data = <<>>
                  /\ \A d \in Clients :
                        ( /\ Accepted(d)
                          /\ request[d].page <= response[d].totalPages
                          /\ request[d].page_size = q.page_size
                          /\ request[d].status = q.status
                          /\ request[d].search = q.search )
                        => /\ response[d].totalCount = r.totalCount
                           /\ response[d].totalPages = r.totalPages

\* a page beyond the last and an in-range page of the same filter have been answered
BeyondLastPageWitness ==
    \E c, d \in Clients :
        /\ Accepted(c) /\ Accepted(d)
        /\ request[c].page > response[c].totalPages
        /\ request[d].page <= response[d].totalPages
        /\ request[d].page_size = request[c].page_size
        /\ request[d].status = request[c].status
        /\ request[d].search = request[c].search
        /\ response[c].totalCount > 0

StartupIsFatal ==
    /\ (pc \in {"serving", "stopped"} \/ \E c \in Clients : Served(c))
       => /\ calls # <<>>
          /\ calls[1] = <<"init_database", "ok">>
          /\ Info("Database initialized successfully") \in Range(log)
          /\ ~raised
    /\ <<"init_database", "raise">> \in Range(calls)
       => /\ Error("Application startup failed") \in Range(log)
          /\ raised
          /\ pc = "failed"
          /\ \A c \in Clients : ~Served(c)
          /\ \A k \in DOMAIN calls : calls[k][1] # "close_database"

\* init_database has raised while a client was waiting to be served
StartupIsFatalWitness ==
    /\ <<"init_database", "raise">> \in Range(calls)
    /\ \E c \in Clients : request[c] # NoRequest

(* C10: once the service has stopped after a successful startup,              *)
(* close_database has been invoked exactly once, after the one invocation of  *)
(* init_database; if close_database raised, the exception was logged and did  *)
(* not propagate: lifespan completed normally.                                *)
ShutdownIsNotFatal ==
    pc = "stopped"
    => /\ Len(calls) = 2
       /\ calls[1] = <<"init_database", "ok">>
       /\ calls[2][1] = "close_database"
       /\ ~raised
       /\ calls[2][2] = "raise"
          => log[Len(log)] = Error("Error during shutdown")
       /\ calls[2][2] = "ok"
          => log[Len(log)] = Info("Application shutdown completed")

\* the service has stopped with close_database raising
ShutdownIsNotFatalWitness ==
    /\ pc = "stopped"
    /\ <<"close_database", "raise">> \in Range(calls)

====
